---- MODULE Spec2Model ----
(***************************************************************************)
(* Model of the webhook delivery pipeline of tracing-layer-core:           *)
(* WebhookLayer::on_event (producer), the unbounded mpsc channel,          *)
(* BackgroundWorker::start / shutdown and the worker() consume loop with   *)
(* its retry / exponential backoff (core/src/worker.rs, core/src/layer.rs).*)
(***************************************************************************)
EXTENDS Integers, Sequences, FiniteSets, TLC

\* ------------------------------------------------------------------ bounds
\* number of calls explored in one run: on_event calls that enqueue a payload,
\* start() calls and shutdown() calls together (each shutdown() on its own clone
\* of the BackgroundWorker)
MaxOps == 4

\* --------------------------------------------------------------- constants
\* const MAX_RETRIES: usize = 10;
MAX_RETRIES == 10

Ids == 1..MaxOps
Tasks == 1..MaxOps
Callers == 1..MaxOps

VARIABLES
    sent,        \* every WorkerMessage ever accepted by the channel, in arrival order
    nRecv,       \* how many of them rx.recv() has handed out
    pc,          \* pc[t]: position of the task spawned by the t-th start()
    cur,         \* cur[t]: payload of the Data message task t dequeued last
    retries,     \* retries[t]: the local `retries` of task t
    rxHolder,    \* owner of the Arc<Mutex<ChannelReceiver>> guard (0: free)
    nSpawned,    \* tasks spawned by start()
    toStore,     \* start() calls that have spawned but not yet stored their JoinHandle
    handle,      \* the Option<JoinHandle>: 0 is None, t is Some(handle of task t)
    hHolder,     \* shutdown() call owning the handle mutex guard (0: free)
    sd,          \* sd[s]: position of the s-th shutdown() call
    took,        \* took[s]: what guard.take() gave call s (-1: not yet, 0: None)
    startsSeen,  \* startsSeen[s]: how many start() calls had returned when call s was
                 \* made, 2 standing for two or more (-1: call s not made yet)
    tries,       \* tries[t]: HTTP POSTs task t issued for cur[t]
    slept,       \* slept[t]: the backoff sleeps (ms) task t made for cur[t], in order
    last,        \* last[t]: result of the last POST task t issued for cur[t]
    posted,      \* payloads for which at least one HTTP POST was issued
    outcome,     \* outcome[id]: how the retry loop of payload id ended
    late,        \* payloads enqueued by an on_event call made when the worker had stopped
    layer,       \* the WebhookLayer's filters (fixed at construction)
    event,       \* the event the event source passes to on_event (None: none)
    result       \* what format() returned for it (None: on_event not called yet)

vars == <<sent, nRecv, pc, cur, retries, rxHolder, nSpawned,
          toStore, handle, hHolder, sd, took, startsSeen, tries, slept, last, posted, outcome,
          late, layer, event, result>>

chanVars == <<sent, nRecv>>
taskVars == <<pc, cur, retries, rxHolder>>
startVars == <<nSpawned, toStore>>
sdVars == <<sd, took, startsSeen>>
httpVars == <<tries, slept, last, posted, outcome>>
fmtVars == <<layer, event, result>>

\* --------------------------------------------------------------- messages
Data(id) == [kind |-> "Data", id |-> id]
Shutdown(s) == [kind |-> "Shutdown", id |-> s]

\* number of Data messages enqueued so far
NData == Cardinality({i \in 1..Len(sent) : sent[i].kind = "Data"})

\* calls made so far: every enqueued message is one on_event or one shutdown()
NOps == Len(sent) + nSpawned

\* the messages still in the channel, oldest first
Queue == SubSeq(sent, nRecv + 1, Len(sent))

\* results of client.post(..).send().await followed by res.text().await
\*   "err"      send() returned Err(e)
\*   "ok2xx"    send() returned Ok(res), success status, body read
\*   "ok5xx"    send() returned Ok(res), non-success status, body read
\*   "bodyerr"  send() returned Ok(res), res.text() returned Err
Results == {"err", "ok2xx", "ok5xx", "bodyerr"}

\* ------------------------------------------------------------ pure helpers
\* while retries < MAX_RETRIES
\* (faulty variant: off by one, `<=`)
RetryGuardOff(r) == r <= MAX_RETRIES
RetryGuard(r) == r < MAX_RETRIES

\* let delay_ms = 2u64.pow(retries as u32) * 100;
\* (u64 arithmetic; retries stays below MAX_RETRIES, so the value stays far below
\* 2^31 and no wrap-around can occur)
\* (faulty variant: linear instead of exponential)
DelayMsLinear(r) == 2 * r * 100
\* (faulty variant: exponent off by one)
DelayMsOff(r) == (2 ^ (r + 1)) * 100
DelayMs(r) == (2 ^ r) * 100

\* where the task goes when the retry loop is left: back to rx.recv()
\* (faulty variant: the task returns when a payload's loop ends)
AfterLoopStop == "done"
\* (faulty variant: the `break` is missing and the loop goes round again)
AfterLoopRetry == "send"
AfterLoop == "recv"

\* WorkerMessage::Shutdown => break
\* (faulty variant: `continue` instead of `break`)
OnShutdownContinue == "recv"
OnShutdown == "done"

\* guard.take(): what is left in the Option
\* (faulty variant: the handle is read but left in place)
TakeLeavesClone(h) == h
TakeLeaves(h) == 0

\* handle.await completes once the task has returned or panicked (JoinError)
\* (faulty variant: the handle is dropped without being awaited)
JoinReadyDetached(p) == TRUE
JoinReady(p) == p \in {"done", "panicked"}

\* position after one pass of the retry loop body that did not break
LoopBack(r) == IF RetryGuard(r) THEN "send" ELSE AfterLoop

\* ------------------------------------------------------- event formatting
\* Option<T>
None == <<>>
Some(x) == <<x>>

\* serde_json::Value of a recorded field: a string or something else
Str(s) == [type |-> "String", v |-> s]
Num(s) == [type |-> "Number", v |-> s]

\* const KEYWORDS: [&str; 2] = ["message", "error"];
KEYWORDS == {"message", "error"}

\* Regex::is_match: a compiled pattern is represented by the set of the strings it
\* matches
is_match(regex, s) == s \in regex

\* EventFilters: an optional inclusion matcher and an optional exclusion matcher
EventFilters(inclusion, exclusion) == [inclusion |-> inclusion, exclusion |-> exclusion]

\* EventFilters::process(candidate) -> Result<(), Rejected>
\* (faulty variant: the inclusion matcher is never consulted)
processIgnoresInclusion(filters, s) ==
    IF filters.exclusion # None /\ is_match(filters.exclusion[1], s) THEN "Err"
    ELSE "Ok"
process(filters, s) ==
    IF filters.inclusion # None /\ ~is_match(filters.inclusion[1], s) THEN "Err"
    ELSE IF filters.exclusion # None /\ is_match(filters.exclusion[1], s) THEN "Err"
    ELSE "Ok"

\* process on an Option<EventFilters>: an absent value imposes no constraint
process_opt(filters, s) == IF filters = None THEN "Ok" ELSE process(filters[1], s)

\* process on the Option<Vec<Regex>> of field exclusions: the key is rejected if it
\* matches any pattern of the list
process_vec(patterns, s) ==
    IF patterns = None THEN "Ok"
    ELSE IF \E i \in 1..Len(patterns[1]) : is_match(patterns[1][i], s) THEN "Err"
    ELSE "Ok"

\* LevelFilter::from_str: position of the name, compared without regard to case,
\* in ["OFF", "ERROR", "WARN", "INFO", "DEBUG", "TRACE"]; -1 stands for
\* Err(ParseLevelError)
LevelFilter_from_str(s) ==
    CASE s \in {"off", "OFF"} -> 0
      [] s \in {"error", "ERROR"} -> 1
      [] s \in {"warn", "WARN"} -> 2
      [] s \in {"info", "INFO"} -> 3
      [] s \in {"debug", "DEBUG"} -> 4
      [] s \in {"trace", "TRACE"} -> 5
      [] OTHER -> -1

\* if message_level > level_threshold { return Err(..) }
\* (faulty variant: `>=`)
level_exceeds_or_eq(message_level, level_threshold) == message_level >= level_threshold
level_exceeds(message_level, level_threshold) == message_level > level_threshold

\* self.target_filters.process(target)?
\* (faulty variant: the result is not propagated)
target_stage_ignored(layer_, e) == "Ok"
target_stage(layer_, e) == process(layer_.target_filters, e.target)

\* the "message" field if it is a string, else the "error" field if it is a string,
\* else "No message"
message_of(e) ==
    IF "message" \in DOMAIN e.fields /\ e.fields["message"].type = "String"
    THEN e.fields["message"].v
    ELSE IF "error" \in DOMAIN e.fields /\ e.fields["error"].type = "String"
    THEN e.fields["error"].v
    ELSE "No message"

\* self.message_filters.process(message)?
message_stage(layer_, e) == process_opt(layer_.message_filters, message_of(e))

\* the level filter of format()
level_stage(layer_, e) ==
    IF layer_.level_filter = None THEN "Ok"
    ELSE LET message_level == LevelFilter_from_str(e.level)
             level_threshold == LevelFilter_from_str(layer_.level_filter[1])
         IN  IF message_level < 0 \/ level_threshold < 0 THEN "Err"
             ELSE IF level_exceeds(message_level, level_threshold) THEN "Err"
             ELSE "Ok"

\* the event's fields the loop of format() visits: not a keyword, not excluded
visited_fields(layer_, e) ==
    {k \in DOMAIN e.fields :
        k \notin KEYWORDS /\ process_vec(layer_.field_exclusion_filters, k) = "Ok"}

\* self.event_by_field_filters.process(key)? in the loop: the first rejected key
\* ends format() with the error
\* (faulty variant: a rejected key is skipped and the loop goes on)
field_stage_skips(layer_, e) == "Ok"
field_stage(layer_, e) ==
    IF \E k \in visited_fields(layer_, e) :
           process_opt(layer_.event_by_field_filters, k) = "Err"
    THEN "Err" ELSE "Ok"

\* the fields of the current span, if there is one
span_fields(e) == IF e.span = None THEN <<>> ELSE e.span[1].fields

\* the metadata map: the visited event fields, then the span's fields; the JSON
\* object is read back into a HashMap, so a span field replaces an event field of
\* the same key
metadata(layer_, e) ==
    [k \in visited_fields(layer_, e) \cup DOMAIN span_fields(e) |->
        IF k \in DOMAIN span_fields(e) THEN span_fields(e)[k] ELSE e.fields[k]]

\* Result of the format closure: [ok |-> FALSE] is Err(FilterError)
format(layer_, e) ==
    IF target_stage(layer_, e) = "Err" THEN [ok |-> FALSE]
    ELSE IF message_stage(layer_, e) = "Err" THEN [ok |-> FALSE]
    ELSE IF level_stage(layer_, e) = "Err" THEN [ok |-> FALSE]
    ELSE IF field_stage(layer_, e) = "Err" THEN [ok |-> FALSE]
    ELSE [ok |-> TRUE,
          message |-> message_of(e),
          event_level |-> e.level,
          target |-> e.target,
          span |-> IF e.span = None THEN "" ELSE e.span[1].name,
          metadata |-> metadata(layer_, e)]

\* ------------------------------------------- inputs of the event formatter
\* event.metadata().target()
Targets == {"svc.auth", "other.mod"}

\* event.metadata().level().as_str()
Levels == {"TRACE", "DEBUG", "INFO", "WARN", "ERROR"}

\* the values a field of the given key is recorded with
ValuesOf(k) ==
    CASE k = "message" -> {Str("login ok"), Num("7")}
      [] k = "error" -> {Str("boom")}
      [] k = "user" -> {Str("a")}
      [] k = "password" -> {Str("x")}

EventKeys == {"message", "error", "user", "password"}

\* event_visitor.values(): the recorded fields of one event
FieldMaps ==
    UNION {{f \in [D -> UNION {ValuesOf(k) : k \in D}] : \A k \in D : f[k] \in ValuesOf(k)} :
              D \in SUBSET EventKeys}

\* ctx.lookup_current(): no span, or a span with its recorded fields
Spans == {None, Some([name |-> "login", fields |-> ("password" :> Str("y"))])}

Events == [target : Targets, level : Levels, fields : FieldMaps, span : Spans]

\* the filters a layer is built with
TargetFilterChoices ==
    {EventFilters(None, None),
     EventFilters(Some({"svc.auth"}), None),
     EventFilters(None, Some({"svc.auth"})),
     EventFilters(Some({"svc.auth", "other.mod"}), Some({"other.mod"}))}
MessageFilterChoices ==
    {None,
     Some(EventFilters(Some({"login ok"}), None)),
     Some(EventFilters(None, Some({"login ok"})))}
FieldFilterChoices ==
    {None,
     Some(EventFilters(Some({"user"}), None)),
     Some(EventFilters(None, Some({"user"})))}
FieldExclusionChoices == {None, Some(<<{"token"}, {"password"}>>)}

\* level_filter: Option<String>
Thresholds == {"trace", "debug", "info", "warn", "error", "off", "verbose"}

NoFilters ==
    [target_filters |-> EventFilters(None, None), message_filters |-> None,
     event_by_field_filters |-> None, field_exclusion_filters |-> None,
     level_filter |-> None]

\* the layers explored: every combination of the regex filters without a level
\* filter and with one, and every threshold without regex filters
Layers ==
    [target_filters : TargetFilterChoices, message_filters : MessageFilterChoices,
     event_by_field_filters : FieldFilterChoices,
     field_exclusion_filters : FieldExclusionChoices,
     level_filter : {None, Some("warn")}]
    \cup {[NoFilters EXCEPT !.level_filter = Some(t)] : t \in Thresholds}

\* ------------------------------------------------------------------- Init
\* WebhookLayer::new: a fresh channel, no task, no stored handle
NewWorker ==
    /\ sent = <<>>
    /\ nRecv = 0
    /\ pc = [t \in Tasks |-> "unspawned"]
    /\ cur = [t \in Tasks |-> 0]
    /\ retries = [t \in Tasks |-> 0]
    /\ rxHolder = 0
    /\ nSpawned = 0
    /\ toStore = {}
    /\ handle = 0
    /\ hHolder = 0
    /\ sd = [s \in Callers |-> "idle"]
    /\ took = [s \in Callers |-> -1]
    /\ startsSeen = [s \in Callers |-> -1]
    /\ tries = [t \in Tasks |-> 0]
    /\ slept = [t \in Tasks |-> <<>>]
    /\ last = [t \in Tasks |-> "none"]
    /\ posted = {}
    /\ outcome = [id \in Ids |-> "none"]
    /\ late = {}

\* a layer without filters and its background worker
Init ==
    /\ NewWorker
    /\ layer = NoFilters
    /\ event = None
    /\ result = None

\* a layer built with any of the filter combinations, its background worker, and
\* any event about to be emitted
FormatInit ==
    /\ NewWorker
    /\ layer \in Layers
    /\ event \in {Some(e) : e \in Events}
    /\ result = None

\* ---------------------------------------------------------------- actions
\* start() has been called and every task it spawned has returned or panicked
WorkerStopped ==
    /\ nSpawned >= 1
    /\ \A t \in 1..nSpawned : pc[t] \in {"done", "panicked"}

\* WebhookLayer::on_event: format() either rejects the event, and nothing is sent,
\* or yields a payload, which self.sender.send(WorkerMessage::Data(..)) enqueues.
\* `accepted` is result.is_ok(); on_event below computes it from the event.
\* Payloads are numbered in the order they are enqueued.
\* (faulty variant: on_event posts the payload itself instead of enqueuing only)
OnEventPostsInline(accepted) ==
    /\ NOps < MaxOps
    /\ sent' = IF accepted THEN Append(sent, Data(NData + 1)) ELSE sent
    /\ late' = IF accepted /\ WorkerStopped THEN late \cup {NData + 1} ELSE late
    /\ posted' = IF accepted THEN posted \cup {NData + 1} ELSE posted
    /\ UNCHANGED <<nRecv, taskVars, startVars, handle, hHolder, sdVars,
                   tries, slept, last, outcome>>
\* (faulty variant: the call cannot complete once the worker has stopped)
OnEventNeedsWorker(accepted) ==
    /\ NOps < MaxOps
    /\ ~WorkerStopped
    /\ sent' = IF accepted THEN Append(sent, Data(NData + 1)) ELSE sent
    /\ late' = late
    /\ UNCHANGED <<nRecv, taskVars, startVars, handle, hHolder, sdVars, httpVars>>
OnEvent(accepted) ==
    /\ NOps < MaxOps
    /\ sent' = IF accepted THEN Append(sent, Data(NData + 1)) ELSE sent
    /\ late' = IF accepted /\ WorkerStopped THEN late \cup {NData + 1} ELSE late
    /\ UNCHANGED <<nRecv, taskVars, startVars, handle, hHolder, sdVars, httpVars>>

\* WebhookLayer::on_event on the event e: let result = format(); if let Ok(formatted)
\* = result { self.sender.send(WorkerMessage::Data(Box::new(formatted))) }
on_event(e) ==
    /\ event = Some(e)
    /\ result = None
    /\ result' = Some(format(layer, e))
    /\ OnEvent(format(layer, e).ok)
    /\ UNCHANGED <<layer, event>>

\* BackgroundWorker::start, up to tokio::spawn(future)
StartSpawn ==
    /\ NOps < MaxOps
    /\ nSpawned' = nSpawned + 1
    /\ pc' = [pc EXCEPT ![nSpawned + 1] = "lock"]
    /\ toStore' = toStore \cup {nSpawned + 1}
    /\ UNCHANGED <<fmtVars, late>>
    /\ UNCHANGED <<chanVars, cur, retries, rxHolder, handle,
                   hHolder, sdVars, httpVars>>

\* BackgroundWorker::start: self.handle.lock().await; *guard = Some(handle)
\* (faulty variant: the JoinHandle is dropped instead of stored)
StartStoreDrops(t) ==
    /\ t \in toStore
    /\ hHolder = 0
    /\ handle' = handle
    /\ toStore' = toStore \ {t}
    /\ UNCHANGED <<fmtVars, late>>
    /\ UNCHANGED <<chanVars, taskVars, nSpawned, hHolder, sdVars, httpVars>>
StartStore(t) ==
    /\ t \in toStore
    /\ hHolder = 0
    /\ handle' = t
    /\ toStore' = toStore \ {t}
    /\ UNCHANGED <<fmtVars, late>>
    /\ UNCHANGED <<chanVars, taskVars, nSpawned, hHolder, sdVars, httpVars>>

\* the spawned future: let mut rx = rx.lock().await
\* (faulty variant: the task takes the receiver without waiting for the mutex)
WorkerLockNoWait(t) ==
    /\ pc[t] = "lock"
    /\ rxHolder' = t
    /\ pc' = [pc EXCEPT ![t] = "recv"]
    /\ UNCHANGED <<fmtVars, late>>
    /\ UNCHANGED <<chanVars, cur, retries, startVars, handle,
                   hHolder, sdVars, httpVars>>
WorkerLock(t) ==
    /\ pc[t] = "lock"
    /\ rxHolder = 0
    /\ rxHolder' = t
    /\ pc' = [pc EXCEPT ![t] = "recv"]
    /\ UNCHANGED <<fmtVars, late>>
    /\ UNCHANGED <<chanVars, cur, retries, startVars, handle,
                   hHolder, sdVars, httpVars>>

\* worker: rx.recv().await and the match on the message. tries, slept and last
\* describe the payload the task is handling or has just handled: they start afresh
\* with the next message.
WorkerRecv(t) ==
    /\ pc[t] = "recv"
    /\ nRecv < Len(sent)
    /\ nRecv' = nRecv + 1
    /\ tries' = [tries EXCEPT ![t] = 0]
    /\ slept' = [slept EXCEPT ![t] = <<>>]
    /\ last' = [last EXCEPT ![t] = "none"]
    /\ LET m == sent[nRecv + 1] IN
         IF m.kind = "Data"
         THEN /\ cur' = [cur EXCEPT ![t] = m.id]
              /\ retries' = [retries EXCEPT ![t] = 0]
              /\ pc' = [pc EXCEPT ![t] = LoopBack(0)]
              /\ UNCHANGED rxHolder
         ELSE /\ cur' = [cur EXCEPT ![t] = 0]
              /\ pc' = [pc EXCEPT ![t] = OnShutdown]
              /\ rxHolder' = IF OnShutdown = "done" THEN 0 ELSE rxHolder
              /\ UNCHANGED retries
    /\ UNCHANGED <<fmtVars, late>>
    /\ UNCHANGED <<sent, startVars, handle, hHolder, sdVars, posted, outcome>>

\* worker: one pass of the body of `while retries < MAX_RETRIES`
WorkerAttempt(t, r) ==
    /\ pc[t] = "send"
    /\ posted' = posted \cup {cur[t]}
    /\ IF r = "err"
       THEN \* Err(e): sleep(delay_ms), retries += 1, loop test
            /\ tries' = [tries EXCEPT ![t] = @ + 1]
            /\ last' = [last EXCEPT ![t] = r]
            /\ slept' = [slept EXCEPT ![t] = Append(@, DelayMs(retries[t]))]
            /\ retries' = [retries EXCEPT ![t] = @ + 1]
            /\ pc' = [pc EXCEPT ![t] = LoopBack(retries[t] + 1)]
            /\ outcome' = [outcome EXCEPT ![cur[t]] =
                             IF RetryGuard(retries[t] + 1) THEN @ ELSE "abandoned"]
            /\ UNCHANGED <<rxHolder, cur>>
       ELSE IF r = "bodyerr"
       THEN \* res.text().await.unwrap() panics: the task unwinds, its locals and the
            \* receiver guard are dropped
            /\ pc' = [pc EXCEPT ![t] = "panicked"]
            /\ rxHolder' = 0
            /\ outcome' = [outcome EXCEPT ![cur[t]] = "panic"]
            /\ tries' = [tries EXCEPT ![t] = 0]
            /\ last' = [last EXCEPT ![t] = "none"]
            /\ slept' = [slept EXCEPT ![t] = <<>>]
            /\ retries' = [retries EXCEPT ![t] = 0]
            /\ cur' = [cur EXCEPT ![t] = 0]
       ELSE \* Ok(res), body read: break
            /\ tries' = [tries EXCEPT ![t] = @ + 1]
            /\ last' = [last EXCEPT ![t] = r]
            /\ pc' = [pc EXCEPT ![t] = AfterLoop]
            /\ rxHolder' = IF AfterLoop = "done" THEN 0 ELSE rxHolder
            /\ outcome' = [outcome EXCEPT ![cur[t]] = "ok"]
            /\ UNCHANGED <<slept, retries, cur>>
    /\ UNCHANGED <<fmtVars, late>>
    /\ UNCHANGED <<chanVars, startVars, handle, hHolder, sdVars>>

\* BackgroundWorker::shutdown: self.sender.send(WorkerMessage::Shutdown)
\* (faulty variant: no message is sent when no worker has been started)
ShutdownSendIfStarted(s) ==
    /\ sd[s] = "idle"
    /\ NOps < MaxOps
    /\ IF s = 1 THEN TRUE ELSE sd[s - 1] # "idle"
    /\ sent' = IF nSpawned = 0 THEN sent ELSE Append(sent, Shutdown(s))
    /\ sd' = [sd EXCEPT ![s] = "lock"]
    /\ startsSeen' = [startsSeen EXCEPT ![s] =
                         IF nSpawned - Cardinality(toStore) >= 2 THEN 2
                         ELSE nSpawned - Cardinality(toStore)]
    /\ UNCHANGED <<fmtVars, late>>
    /\ UNCHANGED <<nRecv, taskVars, startVars, handle, hHolder, took, httpVars>>
ShutdownSend(s) ==
    /\ sd[s] = "idle"
    /\ NOps < MaxOps
    /\ IF s = 1 THEN TRUE ELSE sd[s - 1] # "idle"
    /\ sent' = Append(sent, Shutdown(s))
    /\ sd' = [sd EXCEPT ![s] = "lock"]
    /\ startsSeen' = [startsSeen EXCEPT ![s] =
                         IF nSpawned - Cardinality(toStore) >= 2 THEN 2
                         ELSE nSpawned - Cardinality(toStore)]
    /\ UNCHANGED <<fmtVars, late>>
    /\ UNCHANGED <<nRecv, taskVars, startVars, handle, hHolder, took, httpVars>>

\* BackgroundWorker::shutdown: self.handle.lock().await; guard.take()
ShutdownTake(s) ==
    /\ sd[s] = "lock"
    /\ hHolder = 0
    /\ took' = [took EXCEPT ![s] = handle]
    /\ handle' = TakeLeaves(handle)
    /\ IF handle = 0
       THEN \* the else branch: report, return, guard dropped
            /\ sd' = [sd EXCEPT ![s] = "done"]
            /\ UNCHANGED hHolder
       ELSE /\ sd' = [sd EXCEPT ![s] = "join"]
            /\ hHolder' = s
    /\ UNCHANGED <<fmtVars, late>>
    /\ UNCHANGED <<chanVars, taskVars, startVars, startsSeen, httpVars>>

\* BackgroundWorker::shutdown: let _ = handle.await; return, guard dropped
ShutdownJoin(s) ==
    /\ sd[s] = "join"
    /\ JoinReady(pc[took[s]])
    /\ sd' = [sd EXCEPT ![s] = "done"]
    /\ hHolder' = 0
    /\ UNCHANGED <<fmtVars, late>>
    /\ UNCHANGED <<chanVars, taskVars, startVars, handle, took, startsSeen, httpVars>>

Next ==
    \/ \E a \in BOOLEAN : OnEvent(a) /\ UNCHANGED fmtVars
    \/ StartSpawn
    \/ \E t \in Tasks : StartStore(t)
    \/ \E t \in Tasks : WorkerLock(t)
    \/ \E t \in Tasks : WorkerRecv(t)
    \/ \E t \in Tasks : \E r \in Results : WorkerAttempt(t, r)
    \/ \E s \in Callers : ShutdownSend(s)
    \/ \E s \in Callers : ShutdownTake(s)
    \/ \E s \in Callers : ShutdownJoin(s)

Spec == Init /\ [][Next]_vars

\* the event source calling on_event with the event, on the layer
FormatNext == event # None /\ on_event(event[1])

FormatSpec == FormatInit /\ [][FormatNext]_vars

\* The tokio runtime keeps polling every spawned task and every awaited future, and
\* every HTTP attempt returns: each step of a task, and each step of a start() or
\* shutdown() call already under way, is taken if it stays possible.
Fairness ==
    /\ WF_vars(\E t \in Tasks : StartStore(t))
    /\ WF_vars(\E t \in Tasks : WorkerLock(t))
    /\ WF_vars(\E t \in Tasks : WorkerRecv(t))
    /\ WF_vars(\E t \in Tasks : \E r \in Results : WorkerAttempt(t, r))
    /\ WF_vars(\E s \in Callers : ShutdownTake(s))
    /\ WF_vars(\E s \in Callers : ShutdownJoin(s))

FairSpec == Spec /\ Fairness

\* ------------------------------------------------------------ claims: helpers
\* payload id is still in the channel
InQueue(id) == \E i \in (nRecv + 1)..Len(sent) : sent[i] = Data(id)

\* task t has left the retry loop of the payload it dequeued last
Finished(t) == pc[t] = "recv" /\ cur[t] \in Ids

\* a Shutdown message was enqueued before payload id
AfterShutdown(id) ==
    \E i, j \in 1..Len(sent) : i < j /\ sent[i].kind = "Shutdown" /\ sent[j] = Data(id)

\* Shutdown messages handed out by rx.recv() so far
NShutdownsRecv == Cardinality({i \in 1..nRecv : sent[i].kind = "Shutdown"})

\* ---------------------------------------------------------------------- C1
\* C1: a task issues at most 10 POSTs for the payload it dequeued; once the 10th
\* has failed the payload is abandoned: it is not in the channel any more, no task
\* is about to send it, and the task that handled it stopped at exactly 10 POSTs.
C1_AtMostTenAttempts ==
    /\ \A t \in Tasks : tries[t] <= 10
    /\ \A id \in Ids : outcome[id] = "abandoned" =>
          /\ ~InQueue(id)
          /\ \A t \in Tasks : cur[t] = id => (pc[t] = "recv" /\ tries[t] = 10)

\* a payload abandoned after 10 failed POSTs, while another message is being handled
\* or waited for
C1_Witness ==
    \E t \in Tasks : Finished(t) /\ outcome[cur[t]] = "abandoned" /\ tries[t] = 10
                      /\ last[t] = "err"

\* ---------------------------------------------------------------------- C2
\* C2: a payload whose POSTs fail on attempts 1..n-1 and succeed on attempt n is
\* posted n times (1 <= n <= 10) with n-1 sleeps, the k-th of 100 * 2^(k-1) ms;
\* for n = 10 the sleeps are 100, 200, ..., 25600 ms.
C2_BackoffSchedule ==
    \A t \in Tasks : (Finished(t) /\ outcome[cur[t]] = "ok") =>
        /\ tries[t] \in 1..10
        /\ Len(slept[t]) = tries[t] - 1
        /\ \A k \in 1..Len(slept[t]) : slept[t][k] = 100 * (2 ^ (k - 1))
        /\ tries[t] = 10 =>
              slept[t] = <<100, 200, 400, 800, 1600, 3200, 6400, 12800, 25600>>

\* a payload delivered on its 10th attempt
C2_Witness ==
    \E t \in Tasks : Finished(t) /\ outcome[cur[t]] = "ok" /\ tries[t] = 10
                      /\ Len(slept[t]) = 9

\* ---------------------------------------------------------------------- C3
\* C3: when all 10 POSTs of a payload have failed the task neither stops nor
\* crashes: it is back at rx.recv() still holding the receiver, and whenever a
\* message is queued behind the abandoned payload the task eventually dequeues it.
AbandonedAndQueued ==
    \E t \in Tasks : Finished(t) /\ outcome[cur[t]] = "abandoned" /\ nRecv < Len(sent)

C3_ContinuesAfterAbandon ==
    /\ [](\A t \in Tasks : (cur[t] \in Ids /\ outcome[cur[t]] = "abandoned")
                               => (pc[t] = "recv" /\ rxHolder = t))
    /\ AbandonedAndQueued ~> ~AbandonedAndQueued

\* a task that abandoned the first payload and has dequeued the second
C3_Witness ==
    \E t \in Tasks : outcome[1] = "abandoned" /\ cur[t] = 2 /\ pc[t] = "send"

\* ---------------------------------------------------------------------- C4
\* C4 as claimed: no payload enqueued after a Shutdown message is ever posted, by
\* any task.
C4_Claim == \A id \in Ids : AfterShutdown(id) => id \notin posted

\* C4 amended: a payload enqueued after a Shutdown message is never posted as long
\* as start() was called at most once; only a task spawned by a further start()
\* call can post it.
C4_NoSendAfterShutdown ==
    \A id \in Ids : (AfterShutdown(id) /\ id \in posted) => nSpawned >= 2

\* the only task has dequeued Shutdown and returned, a later payload stays queued
C4_Witness ==
    /\ nSpawned = 1
    /\ pc[1] = "done"
    /\ \E id \in Ids : AfterShutdown(id) /\ InQueue(id) /\ id \notin posted

\* ---------------------------------------------------------------------- C5
\* C5 as claimed: with the worker started once, when its task has left the consume
\* loop every payload enqueued before a Shutdown message has been posted at least
\* once.
C5_Claim ==
    (nSpawned = 1 /\ pc[1] \in {"done", "panicked"}) =>
        \A i, j \in 1..Len(sent) :
            (i < j /\ sent[i].kind = "Data" /\ sent[j].kind = "Shutdown"
                   /\ \A k \in 1..(i - 1) : sent[k].kind = "Data")
                => sent[i].id \in posted

\* ---------------------------------------------------------------------- C6
\* C6 as claimed: with start() called once, a shutdown() call that awaited the
\* task's handle has returned only after the worker dequeued a Shutdown message and
\* left its loop through the break.
C6_Claim ==
    \A s \in Callers :
        (nSpawned = 1 /\ sd[s] = "done" /\ took[s] > 0) => pc[took[s]] = "done"

\* ---------------------------------------------------------------------- C7
\* C7: no handle is taken by two shutdown() calls; when the handle was stored by a
\* single start(), every other shutdown() call that reaches guard.take() finds None
\* and returns without awaiting; a call that awaits holds the handle it took.
C7_DoubleShutdown ==
    /\ \A s1, s2 \in Callers : (s1 # s2 /\ took[s1] > 0) =>
          /\ took[s2] # took[s1]
          /\ (nSpawned <= 1 /\ took[s2] >= 0) => (took[s2] = 0 /\ sd[s2] = "done")
    /\ \A s \in Callers : sd[s] = "join" => (took[s] > 0 /\ hHolder = s)

\* two shutdown() calls on one started worker have both returned: one awaited the
\* task, the other found the handle taken
C7_Witness ==
    /\ nSpawned = 1
    /\ \E s1, s2 \in Callers :
          /\ sd[s1] = "done" /\ took[s1] = 1
          /\ sd[s2] = "done" /\ took[s2] = 0

C9_Claim ==
    \A t \in Tasks : (Finished(t) /\ last[t] = "ok5xx") =>
        (tries[t] = 10 /\ Len(slept[t]) = 10)

\* --------------------------------------------------------------------- C10
\* C10 as claimed: a failed body read never stops the worker: no task panics and no
\* payload ends in a panic.
C10_Claim ==
    /\ \A t \in Tasks : pc[t] # "panicked"
    /\ \A id \in Ids : outcome[id] # "panic"

\* ------------------------------------- the legacy Slack layer and worker
\* examples/simple.rs: tokio::spawn(background_worker), the future worker(rx)
LegacySpawn ==
    /\ NOps < MaxOps
    /\ nSpawned = 0
    /\ nSpawned' = 1
    /\ pc' = [pc EXCEPT ![1] = "recv"]
    /\ UNCHANGED <<fmtVars, late>>
    /\ UNCHANGED <<chanVars, cur, retries, rxHolder, toStore, handle, hHolder, sdVars, httpVars>>

\* legacy worker: while let Some(message) = rx.recv().await; Shutdown => break
LegacyRecv ==
    /\ pc[1] = "recv"
    /\ nRecv < Len(sent)
    /\ nRecv' = nRecv + 1
    /\ LET message == sent[nRecv + 1]
       IN  IF message.kind = "Data"
           THEN /\ pc' = [pc EXCEPT ![1] = "send"]
                /\ cur' = [cur EXCEPT ![1] = message.id]
           ELSE /\ pc' = [pc EXCEPT ![1] = "done"]
                /\ UNCHANGED cur
    /\ UNCHANGED <<fmtVars, late>>
    /\ UNCHANGED <<sent, retries, rxHolder, startVars, handle, hHolder, sdVars, httpVars>>

\* legacy worker, WorkerMessage::Data: one POST, no retry, then
\* Ok(res) => tracing::debug!(?res), Err(e) => tracing::error!(?e). The event goes
\* to the global subscriber (examples/simple.rs: set_global_default), hence to
\* SlackLayer::on_event, which enqueues a payload for it if its filters accept it
\* (`accepted`).
LegacySend(r, accepted) ==
    /\ pc[1] = "send"
    /\ accepted => NOps < MaxOps
    /\ posted' = posted \cup {cur[1]}
    /\ tries' = [tries EXCEPT ![1] = 1]
    /\ last' = [last EXCEPT ![1] = r]
    /\ outcome' = [outcome EXCEPT ![cur[1]] = IF r = "err" THEN "abandoned" ELSE "ok"]
    /\ pc' = [pc EXCEPT ![1] = "recv"]
    /\ sent' = IF accepted THEN Append(sent, Data(NData + 1)) ELSE sent
    /\ UNCHANGED <<fmtVars, late>>
    /\ UNCHANGED <<nRecv, cur, retries, rxHolder, startVars, handle, hHolder, sdVars, slept>>

\* examples/simple.rs: channel_sender.send(WorkerMessage::Shutdown)
LegacyShutdown ==
    /\ NOps < MaxOps
    /\ sd[1] = "idle"
    /\ sd' = [sd EXCEPT ![1] = "done"]
    /\ sent' = Append(sent, Shutdown(1))
    /\ UNCHANGED <<fmtVars, late>>
    /\ UNCHANGED <<nRecv, taskVars, startVars, handle, hHolder, took, startsSeen, httpVars>>

LegacyNext ==
    \/ \E a \in BOOLEAN : OnEvent(a) /\ UNCHANGED fmtVars
    \/ LegacySpawn
    \/ LegacyRecv
    \/ \E r \in {"err", "ok2xx", "ok5xx"} : \E a \in BOOLEAN : LegacySend(r, a)
    \/ LegacyShutdown

LegacySpec == Init /\ [][LegacyNext]_vars

\* ------------------------------------------------- claims on the formatter
\* the on_event call of this behaviour has returned
Called == result # None

\* the target filter, resp. the message filter, rejects the event
TargetRejected == process(layer.target_filters, event[1].target) = "Err"
MessageRejected == process_opt(layer.message_filters, message_of(event[1])) = "Err"

\* C11: an event the target filter or the message filter rejects yields no payload
\* and on_event enqueues nothing for it: the channel holds no message the worker
\* could send.
C11_RejectedNotEnqueued ==
    (Called /\ (TargetRejected \/ MessageRejected)) => (~result[1].ok /\ sent = <<>>)

\* an event of a target the target filter rejects has been through on_event
C11_Witness == Called /\ TargetRejected /\ ~MessageRejected

\* the level filter rejects the event
LevelRejected == level_stage(layer, event[1]) = "Err"

\* the keys of the event's fields the field-key filter rejects
RejectedKeys ==
    {k \in DOMAIN event[1].fields : process_opt(layer.event_by_field_filters, k) = "Err"}

\* the keys of the event's fields that match a field-exclusion pattern
ExcludedKeys ==
    {k \in DOMAIN event[1].fields :
        layer.field_exclusion_filters # None
        /\ \E i \in 1..Len(layer.field_exclusion_filters[1]) :
               k \in layer.field_exclusion_filters[1][i]}

\* the event passed the target, message and level filters
PassedEventFilters == ~TargetRejected /\ ~MessageRejected /\ ~LevelRejected

\* C12 as claimed: a field key the field-key filter rejects is left out of the
\* payload, and the event is still formatted and enqueued with its other fields.
C12_Claim ==
    (Called /\ PassedEventFilters /\ RejectedKeys # {}) =>
        /\ result[1].ok
        /\ Len(sent) = 1
        /\ \A k \in DOMAIN event[1].fields \ (KEYWORDS \cup ExcludedKeys \cup RejectedKeys) :
               k \in DOMAIN result[1].metadata

\* C12 as amended: a field key the field-key filter rejects, of a field that is not
\* a keyword and not removed by the field exclusions, drops the whole event; a
\* rejected key of a keyword or of an excluded field changes nothing.
C12_FieldRejectionDropsEvent ==
    (Called /\ PassedEventFilters) =>
        IF RejectedKeys \ (KEYWORDS \cup ExcludedKeys) # {}
        THEN ~result[1].ok /\ sent = <<>>
        ELSE result[1].ok /\ Len(sent) = 1

\* an event with a rejected field key and another field has been through on_event
C12_Witness ==
    /\ Called /\ PassedEventFilters
    /\ "user" \in RejectedKeys /\ "password" \in DOMAIN event[1].fields \ ExcludedKeys
    /\ ~result[1].ok

\* the key matches at least one field-exclusion pattern
MatchesExclusion(k) ==
    /\ layer.field_exclusion_filters # None
    /\ \E i \in 1..Len(layer.field_exclusion_filters[1]) :
           k \in layer.field_exclusion_filters[1][i]

\* C13: in every emitted payload, with or without an active span, a field key
\* (of the event or of the span, the keywords message and error aside) is absent
\* from the payload iff it matches a field-exclusion pattern, and a field whose key
\* matches none is present with the value it was recorded with.
C13_Claim ==
    (Called /\ result[1].ok) =>
        \A k \in (DOMAIN event[1].fields \cup DOMAIN span_fields(event[1])) \ KEYWORDS :
            /\ (k \notin DOMAIN result[1].metadata) <=> MatchesExclusion(k)
            /\ ~MatchesExclusion(k) =>
                   result[1].metadata[k] \in
                       {event[1].fields[j] : j \in {k} \cap DOMAIN event[1].fields}
                       \cup {span_fields(event[1])[j] : j \in {k} \cap DOMAIN span_fields(event[1])}

\* position of a level name in the ordering Trace < Debug < Info < Warn < Error
\* (0: not a level)
Severity(s) ==
    CASE s \in {"trace", "TRACE"} -> 1
      [] s \in {"debug", "DEBUG"} -> 2
      [] s \in {"info", "INFO"} -> 3
      [] s \in {"warn", "WARN"} -> 4
      [] s \in {"error", "ERROR"} -> 5
      [] OTHER -> 0

\* the layer has a level threshold that names one of the five levels
HasThreshold == layer.level_filter # None /\ Severity(layer.level_filter[1]) > 0

\* C14: with a level threshold T, an event of level L that passed the target and
\* message filters is dropped if L is strictly below T (nothing is enqueued), and is
\* not dropped by the level filter if L is T or above: it is enqueued unless the
\* field-key filter drops it.
C14_LevelThreshold ==
    (Called /\ ~TargetRejected /\ ~MessageRejected /\ HasThreshold) =>
        IF Severity(event[1].level) < Severity(layer.level_filter[1])
        THEN ~result[1].ok /\ sent = <<>>
        ELSE (RejectedKeys \ (KEYWORDS \cup ExcludedKeys) = {}) =>
                 (result[1].ok /\ Len(sent) = 1)

\* an event whose level equals the threshold has been through on_event and was kept
C14_Witness ==
    /\ Called /\ HasThreshold
    /\ Severity(event[1].level) = Severity(layer.level_filter[1])
    /\ result[1].ok /\ Len(sent) = 1

\* the acceptance condition: no inclusion matcher or s matches it, and no exclusion
\* matcher or s does not match it
Accepts(filters, s) ==
    /\ filters.inclusion = None \/ s \in filters.inclusion[1]
    /\ filters.exclusion = None \/ s \notin filters.exclusion[1]

\* the same for an optional EventFilters: an absent one accepts every input
AcceptsOpt(filters, s) == filters = None \/ Accepts(filters[1], s)

C16_Claim ==
    [][(posted' # posted /\ last'[1] = "err") => sent' = sent]_vars

Enqueued == Len(sent') = Len(sent) + 1 /\ sent'[Len(sent')].kind = "Data"

\* what every step satisfies if on_event only enqueues and only worker tasks post
OnEventStep ==
    /\ (NOps < MaxOps) => ENABLED OnEvent(TRUE)
    /\ Enqueued => UNCHANGED <<nRecv, taskVars, httpVars>>
    /\ (posted' # posted \/ (\E t \in Tasks : tries'[t] > tries[t])) =>
           (sent' = sent /\ \E t \in Tasks : pc[t] = "send" /\ rxHolder = t)

\* C18: on_event never waits on the worker and does no HTTP itself: in every worker
\* state the call is possible; the step that enqueues a payload enqueues exactly
\* one, issues no POST and changes nothing of any worker task; and every POST is
\* issued in a step of a worker task that holds the receiver, which leaves the
\* channel untouched.
C18_OnEventOnlyEnqueues == [][OnEventStep]_vars

\* a payload is waiting in the channel while a worker task is between two attempts
\* of an earlier one
C18_Witness ==
    /\ \E t \in Tasks : pc[t] = "send" /\ retries[t] >= 1
    /\ Len(sent) > nRecv /\ sent[Len(sent)].kind = "Data"

\* --------------------------------------------------- claims on concurrency
\* C19: payloads are handled in channel arrival order (ids are given in arrival
\* order): when a first attempt has been made for a payload, every payload enqueued
\* before it has succeeded or exhausted its attempts, so attempts for different
\* payloads never interleave.
C19_Claim ==
    \A id \in posted : \A j \in 1..(id - 1) : outcome[j] \in {"ok", "abandoned"}

\* the tasks that are in the consume loop: at rx.recv() or handling a message
Receiving == {t \in Tasks : pc[t] \in {"recv", "send"}}

\* C20: at any time at most one task is in the consume loop, however many start()
\* calls were made and whatever shutdown() calls are under way, and that task is
\* the holder of the receiver mutex.
C20_OneReceiver ==
    /\ Cardinality(Receiving) <= 1
    /\ Receiving \subseteq {rxHolder}
    /\ rxHolder # 0 => rxHolder \in Receiving

\* two start() calls and a shutdown() under way: one task receives, the other waits
\* for the receiver mutex
C20_Witness ==
    /\ nSpawned >= 2
    /\ \E t, u \in Tasks : pc[t] = "recv" /\ pc[u] = "lock"
    /\ \E s \in Callers : sd[s] \notin {"idle", "done"}

\* ------------------------------------------------- claims on the retry loop
\* the last POST of task t, for the payload it holds, returned a response
GotResponse(t) == last[t] \in {"ok2xx", "ok5xx"}

\* what every step satisfies if a response ends the retry loop
ResponseEndsLoop ==
    /\ \A t \in Tasks : GotResponse(t) =>
          /\ pc[t] # "send"
          /\ Len(slept[t]) = tries[t] - 1
          /\ cur'[t] = cur[t] => (tries'[t] = tries[t] /\ slept'[t] = slept[t])
    /\ \A id \in Ids : outcome[id] \in {"ok", "panic"} =>
          /\ ~InQueue(id)
          /\ \A t \in Tasks : ~(cur[t] = id /\ pc[t] = "send")
          /\ outcome'[id] = outcome[id]

\* C21: once a POST for a payload has returned a response, no task makes another
\* attempt or backoff sleep for that payload: the task that got the response is out
\* of the retry loop with one sleep per earlier failure, the payload is not in the
\* channel and not being sent, and its outcome never changes again.
C21_ResponseEndsLoop == [][ResponseEndsLoop]_vars

\* the first payload got a response, and the task has gone on to post the next one
C21_Witness ==
    /\ outcome[1] = "ok"
    /\ \E t \in Tasks : cur[t] = 2 /\ pc[t] = "send" /\ tries[t] >= 1

\* ------------------------------------------------- claims on the lifecycle
\* start() was called once and shutdown() at most once
OneStartOneShutdown == nSpawned = 1 /\ sd[2] = "idle"

\* C22 as claimed: the handle is empty until start() is called; and when start()
\* and shutdown() have each been called once and have both returned, in whatever
\* order or overlap, shutdown() took the handle start() stored, left the Option
\* empty, and returned only after the spawned task had terminated.
C22_Claim ==
    /\ nSpawned = 0 => handle = 0
    /\ (OneStartOneShutdown /\ toStore = {} /\ sd[1] = "done") =>
          (took[1] = 1 /\ handle = 0 /\ pc[1] \in {"done", "panicked"})

\* C22 amended: the handle is empty until start() is called. With one start() and
\* one shutdown(): if start() had returned when shutdown() was called, shutdown()
\* takes the stored handle, leaves the Option empty and returns only after the
\* spawned task has terminated; if it had not, shutdown() may find the Option
\* empty, and then it returns without awaiting and the handle start() stores
\* afterwards is never consumed.
C22_HandleLifecycle ==
    /\ nSpawned = 0 => handle = 0
    /\ (OneStartOneShutdown /\ startsSeen[1] = 1) =>
          /\ took[1] \in {-1, 1}
          /\ handle = (IF took[1] = 1 THEN 0 ELSE 1)
          /\ sd[1] = "done" => (took[1] = 1 /\ pc[1] \in {"done", "panicked"})
    /\ (OneStartOneShutdown /\ startsSeen[1] = 0) =>
          /\ took[1] \in {-1, 0, 1}
          /\ took[1] = 0 => (sd[1] = "done" /\ handle = (IF toStore = {} THEN 1 ELSE 0))
          /\ took[1] = 1 => (handle = 0 /\ (sd[1] = "done" => pc[1] \in {"done", "panicked"}))

\* shutdown(), called after start() had returned, took the handle and has returned
\* after the task stopped
C22_Witness ==
    /\ OneStartOneShutdown /\ startsSeen[1] = 1
    /\ sd[1] = "done" /\ took[1] = 1 /\ handle = 0 /\ pc[1] = "done"

\* a Shutdown message is waiting in the channel
ShutdownQueued == \E i \in (nRecv + 1)..Len(sent) : sent[i].kind = "Shutdown"

\* what every step satisfies if a queued Shutdown does not cut a retry loop short
RetryLoopRunsOn ==
    \A t \in Tasks : (pc[t] = "send" /\ ShutdownQueued) =>
        /\ nRecv' = nRecv
        /\ \/ pc'[t] = "send" /\ cur'[t] = cur[t]
           \/ pc'[t] = "recv" /\ outcome'[cur[t]] \in {"ok", "abandoned"}

\* C23 as claimed: while a task is in the retry loop of a payload and a Shutdown
\* message is waiting, no message is dequeued and the task stays in the loop until
\* it leaves it by a success or by the 10th failure, back at rx.recv(), where it
\* then dequeues the Shutdown.
C23_Claim == [][RetryLoopRunsOn]_vars

\* C24: every failed attempt is followed by a sleep, the 10th included: a task has
\* slept once per failed attempt, the k-th sleep lasting 100 * 2^(k-1) ms; a payload
\* abandoned after 10 failures has cost 10 sleeps, the last of 51200 ms, when the
\* task is back at rx.recv(); and no delay exceeds 51200 ms, far below 2^64.
C24_SleepAfterEveryFailure ==
    \A t \in Tasks :
        /\ Len(slept[t]) = (IF GotResponse(t) THEN tries[t] - 1 ELSE tries[t])
        /\ \A k \in 1..Len(slept[t]) :
              slept[t][k] = 100 * (2 ^ (k - 1)) /\ slept[t][k] <= 51200
        /\ (cur[t] \in Ids /\ outcome[cur[t]] = "abandoned") =>
              (pc[t] = "recv" /\ Len(slept[t]) = 10 /\ slept[t][10] = 51200)

\* a payload abandoned after its 10th sleep, with the next message still queued
C24_Witness ==
    \E t \in Tasks : /\ cur[t] \in Ids /\ outcome[cur[t]] = "abandoned"
                      /\ Len(slept[t]) = 10 /\ nRecv < Len(sent)

\* payload id waits in the channel of a worker that has not been started, with no
\* Shutdown message ahead of it
QueuedBeforeStart(id) == nSpawned = 0 /\ InQueue(id) /\ ~AfterShutdown(id)

\* C25 as claimed: payloads enqueued before start() stay in the channel while the
\* worker is not started, POSTs are issued in enqueue order, and once the worker is
\* started each of these payloads is eventually posted.
C25_Claim ==
    /\ [](nSpawned = 0 => (nRecv = 0 /\ posted = {}))
    /\ [](\A id \in posted : \A j \in 1..(id - 1) : j \in posted)
    /\ \A id \in Ids :
          [](QueuedBeforeStart(id) => [](nSpawned >= 1 => <>(id \in posted)))

\* what every step satisfies if a shutdown() on a worker never started returns at
\* once and leaves its message for a worker started later
ShutdownBeforeStart ==
    /\ (nSpawned = 0 /\ sd[1] = "lock" /\ sd'[1] # "lock") =>
          /\ took'[1] = 0 /\ sd'[1] = "done" /\ hHolder' = 0
          /\ nRecv' = 0 /\ ShutdownQueued'
    /\ (nSpawned = 1 /\ took[1] = 0 /\ startsSeen[1] = 0) =>
          /\ \A id \in posted : ~AfterShutdown(id)
          /\ pc[1] = "done" =>
                /\ nRecv >= 1 /\ sent[nRecv].kind = "Shutdown"
                /\ \A i \in 1..(nRecv - 1) : sent[i].kind = "Data"
                /\ nRecv' = nRecv /\ posted' = posted

\* C26: a shutdown() on a worker that was never started finds no handle and returns
\* without waiting, and its Shutdown message stays in the channel; the task of a
\* start() made afterwards posts only payloads enqueued before that Shutdown, and
\* when it has exited it has dequeued exactly the messages up to that Shutdown and
\* nothing is dequeued or posted any more.
C26_ShutdownBeforeStart == [][ShutdownBeforeStart]_vars

\* the worker was started after such a shutdown(), posted the payload enqueued before
\* the Shutdown and exited, leaving a later payload in the channel
C26_Witness ==
    /\ nSpawned = 1 /\ took[1] = 0 /\ startsSeen[1] = 0 /\ sd[1] = "done"
    /\ pc[1] = "done" /\ posted = {1} /\ InQueue(2) /\ AfterShutdown(2)


====
